---- MODULE Spec2Model ----
(***************************************************************************)
(* Endpoint instruction model of universi/structure/endpoints.py.          *)
(*                                                                         *)
(* Python objects are modelled by name: the string "None" is the object    *)
(* None, "[]" an empty list, "200" the integer 200, and so on.  A          *)
(* dataclass instance is a record whose field "class" names its class and  *)
(* whose other fields are the dataclass fields.  A keyword-argument call   *)
(* site is a function from the mentioned parameter names to the values     *)
(* passed.                                                                 *)
(***************************************************************************)
EXTENDS Naturals, Sequences, FiniteSets, TLC

VARIABLES
    factory,      \* the EndpointInstructionFactory returned by endpoint(...)
    site,         \* the call site of endpoint(...) that built the factory
    instrs,       \* the instructions produced so far, in order of production
    trace,        \* for each produced instruction, the factory call that made it
    invocations,  \* per handler producer, how many times it has been invoked
    returns,      \* per handler producer, what it returns if invoked now
    result        \* outcome of the latest invocation of a stored producer

vars == <<factory, site, instrs, trace, invocations, returns, result>>

(***************************************************************************)
(* Bounds of the model.                                                    *)
(***************************************************************************)
MaxInstrs == 2
MaxMentioned == 1
MaxInvocations == 2

(***************************************************************************)
(* Values.                                                                 *)
(***************************************************************************)
Sentinel == "Sentinel"
None == "None"

\* Values a call site passes for a payload field: the falsy and empty ones
\* and one truthy one.
Values == {"None", "False", "0", "[]", "{}", "''", "200"}
Falsy == {"None", "False", "0", "[]", "{}", "''"}

Paths == {"/users", "/items"}
MethodSeqs == {<< >>, <<"GET", "POST">>, <<"POST", "GET">>}
FuncNames == {"get_users"}

Producers == {"get_v1", "get_v2"}
Handlers == {"handler_a", "handler_b"}
NoResult == "NoResult"
TypeError == "TypeError"

\* @dataclass(slots=True): no frozen=True on any of the classes.
frozen == FALSE

(***************************************************************************)
(* EndpointAttributesPayload                                               *)
(***************************************************************************)
PayloadFields ==
    << "path", "response_model", "status_code", "tags", "dependencies",
       "summary", "description", "response_description", "responses",
       "deprecated", "methods", "operation_id", "include_in_schema",
       "response_class", "name", "callbacks", "openapi_extra",
       "generate_unique_id_function" >>

FieldNames == {PayloadFields[k] : k \in 1..Len(PayloadFields)}

\* A falsy value of the declared type of each field.
FieldFalsy(f) ==
    CASE f \in {"path", "summary", "description", "response_description",
                "operation_id", "name"} -> "''"
      [] f = "status_code" -> "0"
      [] f \in {"tags", "dependencies", "methods", "callbacks"} -> "[]"
      [] f \in {"responses", "openapi_extra"} -> "{}"
      [] f \in {"deprecated", "include_in_schema"} -> "False"
      [] OTHER -> "None"

EndpointAttributesPayload(path, response_model, status_code, tags, dependencies, summary, description, response_description, responses, deprecated, methods, operation_id, include_in_schema, response_class, name, callbacks, openapi_extra, generate_unique_id_function) ==
    [ class |-> "EndpointAttributesPayload",
      path |-> path,
      response_model |-> response_model,
      status_code |-> status_code,
      tags |-> tags,
      dependencies |-> dependencies,
      summary |-> summary,
      description |-> description,
      response_description |-> response_description,
      responses |-> responses,
      deprecated |-> deprecated,
      methods |-> methods,
      operation_id |-> operation_id,
      include_in_schema |-> include_in_schema,
      response_class |-> response_class,
      name |-> name,
      callbacks |-> callbacks,
      openapi_extra |-> openapi_extra,
      generate_unique_id_function |-> generate_unique_id_function ]

(***************************************************************************)
(* The instruction classes and the factory class.                          *)
(***************************************************************************)
EndpointHadInstruction(endpoint_path, endpoint_methods, endpoint_func_name, attributes) ==
    [ class |-> "EndpointHadInstruction",
      endpoint_path |-> endpoint_path,
      endpoint_methods |-> endpoint_methods,
      endpoint_func_name |-> endpoint_func_name,
      attributes |-> attributes ]

EndpointExistedInstruction(endpoint_path, endpoint_methods, endpoint_func_name) ==
    [ class |-> "EndpointExistedInstruction",
      endpoint_path |-> endpoint_path,
      endpoint_methods |-> endpoint_methods,
      endpoint_func_name |-> endpoint_func_name ]

EndpointDidntExistInstruction(endpoint_path, endpoint_methods, endpoint_func_name) ==
    [ class |-> "EndpointDidntExistInstruction",
      endpoint_path |-> endpoint_path,
      endpoint_methods |-> endpoint_methods,
      endpoint_func_name |-> endpoint_func_name ]

EndpointWasInstruction(endpoint_path, endpoint_methods, endpoint_func_name, get_old_endpoint) ==
    [ class |-> "EndpointWasInstruction",
      endpoint_path |-> endpoint_path,
      endpoint_methods |-> endpoint_methods,
      endpoint_func_name |-> endpoint_func_name,
      get_old_endpoint |-> get_old_endpoint ]

EndpointInstructionFactory(endpoint_path, endpoint_methods, endpoint_func_name) ==
    [ class |-> "EndpointInstructionFactory",
      endpoint_path |-> endpoint_path,
      endpoint_methods |-> endpoint_methods,
      endpoint_func_name |-> endpoint_func_name ]

AlterEndpointSubInstruction ==
    { "EndpointDidntExistInstruction", "EndpointExistedInstruction",
      "EndpointHadInstruction" }

(***************************************************************************)
(* Keyword arguments.                                                      *)
(***************************************************************************)
NoKwargs == [f \in {} |-> None]

\* Arg with None as the default of every parameter.
ArgNoneDefault(kwargs, f) == IF f \in DOMAIN kwargs THEN kwargs[f] ELSE None

\* Arg with a truthiness test: a falsy value passed counts as not passed.
ArgOrSentinel(kwargs, f) ==
    IF f \in DOMAIN kwargs /\ kwargs[f] \notin Falsy
    THEN kwargs[f] ELSE Sentinel

\* The value bound to keyword-only parameter f of had(): the value passed
\* when the call site mentions f, the parameter's default otherwise.
Arg(kwargs, f) == IF f \in DOMAIN kwargs THEN kwargs[f] ELSE Sentinel

\* endpoint(path, methods, /, *, func_name=None)
endpoint(path, methods, kwargs) ==
    EndpointInstructionFactory(
        path,
        methods,
        IF "func_name" \in DOMAIN kwargs THEN kwargs["func_name"] ELSE None)

(***************************************************************************)
(* The four operations of EndpointInstructionFactory.                      *)
(***************************************************************************)
\* didnt_exist that leaves endpoint_func_name out.
didnt_exist_unnamed(self) ==
    EndpointDidntExistInstruction(self.endpoint_path, self.endpoint_methods, None)

didnt_exist(self) ==
    EndpointDidntExistInstruction(
        self.endpoint_path, self.endpoint_methods, self.endpoint_func_name)

\* existed that builds the other argument-less variant.
existed_as_didnt_exist(self) ==
    EndpointDidntExistInstruction(
        self.endpoint_path, self.endpoint_methods, self.endpoint_func_name)

existed(self) ==
    EndpointExistedInstruction(
        self.endpoint_path, self.endpoint_methods, self.endpoint_func_name)

had(self, kwargs) ==
    EndpointHadInstruction(
        self.endpoint_path,
        self.endpoint_methods,
        self.endpoint_func_name,
        EndpointAttributesPayload(
            Arg(kwargs, "path"),
            Arg(kwargs, "response_model"),
            Arg(kwargs, "status_code"),
            Arg(kwargs, "tags"),
            Arg(kwargs, "dependencies"),
            Arg(kwargs, "summary"),
            Arg(kwargs, "description"),
            Arg(kwargs, "response_description"),
            Arg(kwargs, "responses"),
            Arg(kwargs, "deprecated"),
            Arg(kwargs, "methods"),
            Arg(kwargs, "operation_id"),
            Arg(kwargs, "include_in_schema"),
            Arg(kwargs, "response_class"),
            Arg(kwargs, "name"),
            Arg(kwargs, "callbacks"),
            Arg(kwargs, "openapi_extra"),
            Arg(kwargs, "generate_unique_id_function")))

\* typing.cast returns its second argument unchanged.
was(self, get_old_endpoint) ==
    EndpointWasInstruction(
        self.endpoint_path,
        self.endpoint_methods,
        self.endpoint_func_name,
        get_old_endpoint)

(***************************************************************************)
(* Inputs.                                                                 *)
(***************************************************************************)
EndpointKwargs == {NoKwargs} \cup {[f \in {"func_name"} |-> n] : n \in FuncNames}

EndpointSites ==
    {[path |-> p, methods |-> m, kwargs |-> k] :
        p \in Paths, m \in MethodSeqs, k \in EndpointKwargs}

RECURSIVE SubsetsUpTo(_)
SubsetsUpTo(k) ==
    IF k = 0 THEN {{}}
    ELSE LET prev == SubsetsUpTo(k - 1)
         IN  prev \cup {s \cup {f} : s \in prev, f \in FieldNames}

\* had() call sites that mention at most MaxMentioned fields, each with any
\* value, and those that mention all but at most MaxMentioned fields, with
\* one value.
SparseKwargs == UNION {[S -> Values] : S \in SubsetsUpTo(MaxMentioned)}
DenseKwargs ==
    {[f \in FieldNames \ S |-> v] : S \in SubsetsUpTo(MaxMentioned), v \in Values}
Kwargs == SparseKwargs \cup DenseKwargs

\* had() call sites of a migration: nothing mentioned, one field mentioned
\* with a falsy value of its type, and had(status_code=200, tags=[]).
CallSiteKwargs ==
    {NoKwargs}
        \cup {[f \in {g} |-> FieldFalsy(g)] : g \in FieldNames}
        \cup {[f \in {"status_code", "tags"} |->
                  IF f = "status_code" THEN "200" ELSE "[]"]}

\* What a call site can pass to was(): a callable, or something that is not.
WasArgs == Producers \cup {None}

(***************************************************************************)
(* Initial state: endpoint(...) has returned a factory.                    *)
(***************************************************************************)
Init ==
    /\ site \in EndpointSites
    /\ factory = endpoint(site.path, site.methods, site.kwargs)
    /\ instrs = << >>
    /\ trace = << >>
    /\ invocations = [p \in Producers |-> 0]
    /\ returns \in [Producers -> {"handler_a"}]
    /\ result = NoResult

(***************************************************************************)
(* Actions: one per factory operation.                                     *)
(***************************************************************************)
DidntExist ==
    /\ Len(instrs) < MaxInstrs
    /\ instrs' = Append(instrs, didnt_exist(factory))
    /\ trace' = Append(trace, [op |-> "didnt_exist", args |-> NoKwargs])
    /\ UNCHANGED <<factory, site, invocations, returns, result>>

Existed ==
    /\ Len(instrs) < MaxInstrs
    /\ instrs' = Append(instrs, existed(factory))
    /\ trace' = Append(trace, [op |-> "existed", args |-> NoKwargs])
    /\ UNCHANGED <<factory, site, invocations, returns, result>>

\* Had that also applies a mentioned path to the factory itself.
HadRenaming(kwargs) ==
    /\ Len(instrs) < MaxInstrs
    /\ instrs' = Append(instrs, had(factory, kwargs))
    /\ trace' = Append(trace, [op |-> "had", args |-> kwargs])
    /\ factory' = IF "path" \in DOMAIN kwargs
                  THEN [factory EXCEPT !.endpoint_path = kwargs["path"]]
                  ELSE factory
    /\ UNCHANGED <<site, invocations, returns, result>>

Had(kwargs) ==
    /\ Len(instrs) < MaxInstrs
    /\ instrs' = Append(instrs, had(factory, kwargs))
    /\ trace' = Append(trace, [op |-> "had", args |-> kwargs])
    /\ UNCHANGED <<factory, site, invocations, returns, result>>

\* Was that resolves the producer while building the instruction.
WasEager(get_old_endpoint) ==
    /\ Len(instrs) < MaxInstrs
    /\ instrs' = Append(instrs, was(factory, get_old_endpoint))
    /\ trace' = Append(trace,
                    [op |-> "was",
                     args |-> [f \in {"get_old_endpoint"} |-> get_old_endpoint],
                     then |-> IF get_old_endpoint \in Producers
                              THEN returns[get_old_endpoint] ELSE TypeError])
    /\ invocations' = IF get_old_endpoint \in Producers
                      THEN [invocations EXCEPT ![get_old_endpoint] = @ + 1]
                      ELSE invocations
    /\ UNCHANGED <<factory, site, returns, result>>

Was(get_old_endpoint) ==
    /\ Len(instrs) < MaxInstrs
    /\ instrs' = Append(instrs, was(factory, get_old_endpoint))
    /\ trace' = Append(trace,
                    [op |-> "was",
                     args |-> [f \in {"get_old_endpoint"} |-> get_old_endpoint],
                     then |-> IF get_old_endpoint \in Producers
                              THEN returns[get_old_endpoint] ELSE TypeError])
    /\ UNCHANGED <<factory, site, invocations, returns, result>>

\* A had() call made on a factory that has produced nothing yet.
HadOnce ==
    /\ instrs = << >>
    /\ \E kwargs \in Kwargs : Had(kwargs)

(***************************************************************************)
(* A stored get_old_endpoint reference is called: instr.get_old_endpoint() *)
(* calls the object that was passed to was().  Calling something that is   *)
(* not callable raises TypeError.                                          *)
(***************************************************************************)
Invoke(i) ==
    /\ i \in 1..Len(instrs)
    /\ instrs[i].class = "EndpointWasInstruction"
    /\ LET g == instrs[i].get_old_endpoint
       IN  IF g \in Producers
           THEN /\ invocations[g] < MaxInvocations
                /\ invocations' = [invocations EXCEPT ![g] = @ + 1]
                /\ result' = returns[g]
           ELSE /\ result' = TypeError
                /\ UNCHANGED invocations
    /\ UNCHANGED <<factory, site, instrs, trace, returns>>

\* What a producer resolves to changes, as when the handler it refers to is
\* defined or redefined after the instruction was built.
Rebind(p, h) ==
    /\ returns[p] # h
    /\ returns' = [returns EXCEPT ![p] = h]
    /\ UNCHANGED <<factory, site, instrs, trace, invocations, result>>

(***************************************************************************)
(* Attribute assignment on dataclass instances.  A frozen dataclass raises *)
(* FrozenInstanceError and keeps the field; any other one stores the value.*)
(***************************************************************************)
KeyFieldValues(fld) ==
    CASE fld = "endpoint_path" -> Paths
      [] fld = "endpoint_methods" -> MethodSeqs
      [] fld = "endpoint_func_name" -> FuncNames \cup {None}

\* Instruction i is as the factory operation recorded in trace built it.
AsConstructed(i) ==
    /\ i \in 1..Len(instrs)
    /\ instrs[i] =
        CASE trace[i].op = "didnt_exist" -> didnt_exist(factory)
          [] trace[i].op = "existed" -> existed(factory)
          [] trace[i].op = "had" -> had(factory, trace[i].args)
          [] trace[i].op = "was" -> was(factory, trace[i].args["get_old_endpoint"])

\* No object has been assigned to yet.  The model follows one assignment per
\* behaviour.
Pristine == \A j \in 1..Len(instrs) : AsConstructed(j)

SetInstrAttr(i) ==
    /\ ~frozen
    /\ Pristine
    /\ i \in 1..Len(instrs)
    /\ \E fld \in {"endpoint_path", "endpoint_methods", "endpoint_func_name"} :
         \E v \in KeyFieldValues(fld) :
           /\ instrs[i][fld] # v
           /\ instrs' = [instrs EXCEPT ![i][fld] = v]
    /\ UNCHANGED <<factory, site, trace, invocations, returns, result>>

SetPayloadAttr(i) ==
    /\ ~frozen
    /\ Pristine
    /\ i \in 1..Len(instrs)
    /\ instrs[i].class = "EndpointHadInstruction"
    /\ \E f \in FieldNames, v \in Values \cup {Sentinel} :
         /\ instrs[i].attributes[f] # v
         /\ instrs' = [instrs EXCEPT ![i].attributes[f] = v]
    /\ UNCHANGED <<factory, site, trace, invocations, returns, result>>

(***************************************************************************)
(* Specifications.                                                         *)
(***************************************************************************)
\* Any sequence of the four factory operations.
Next ==
    \/ DidntExist
    \/ Existed
    \/ \E kwargs \in CallSiteKwargs : Had(kwargs)
    \/ \E x \in WasArgs : Was(x)

Spec == Init /\ [][Next]_vars

\* had() applied once, to every call site of Kwargs.
NextHad == HadOnce

SpecHad == Init /\ [][NextHad]_vars

\* was() and the later life of the stored producer.
NextWas ==
    \/ \E x \in WasArgs : Was(x)
    \/ \E i \in 1..MaxInstrs : Invoke(i)
    \/ \E p \in Producers, h \in Handlers : Rebind(p, h)

SpecWas == Init /\ [][NextWas]_vars

\* The factory operations together with attribute assignment by a holder of
\* the objects.
NextMut ==
    \/ DidntExist
    \/ Existed
    \/ \E kwargs \in {k \in CallSiteKwargs : Cardinality(DOMAIN k) # 1} : Had(kwargs)
    \/ \E x \in WasArgs : Was(x)
    \/ \E i \in 1..MaxInstrs : SetInstrAttr(i)
    \/ \E i \in 1..MaxInstrs : SetPayloadAttr(i)

SpecMut == Init /\ [][NextMut]_vars

(***************************************************************************)
(* Properties.                                                             *)
(***************************************************************************)
KeyFields == {"endpoint_path", "endpoint_methods", "endpoint_func_name"}

HadIndices == {i \in 1..Len(instrs) : trace[i].op = "had"}

\* C1: every payload field that a had() call site does not mention holds the
\* Sentinel marker, whichever other fields the call site mentions.
C1_UnmentionedIsSentinel ==
    \A i \in HadIndices :
        \A f \in FieldNames \ DOMAIN trace[i].args :
            instrs[i].attributes[f] = Sentinel

C1_Witness ==
    \E i \in HadIndices :
        /\ Cardinality(DOMAIN trace[i].args) >= Cardinality(FieldNames) - 1
        /\ \E f \in FieldNames \ DOMAIN trace[i].args :
               instrs[i].attributes[f] = Sentinel
        /\ \E f \in DOMAIN trace[i].args : trace[i].args[f] = "None"

\* C2: every payload field that a had() call site mentions, with a falsy or
\* empty value too, holds exactly the value passed and not the Sentinel
\* marker, and the value lands in no field the call site did not mention.
C2_MentionedIsStored ==
    \A i \in HadIndices :
        \A f \in DOMAIN trace[i].args :
            /\ instrs[i].attributes[f] # Sentinel
            /\ instrs[i].attributes[f] = trace[i].args[f]
            /\ \A g \in FieldNames \ DOMAIN trace[i].args :
                   instrs[i].attributes[g] # trace[i].args[f]

C2_Witness ==
    \E i \in HadIndices :
        /\ DOMAIN trace[i].args = {"tags"}
        /\ trace[i].args["tags"] = "[]"
        /\ instrs[i].attributes.tags = "[]"
        /\ instrs[i].attributes.summary = Sentinel

\* C3: for a factory built with at least one method, every instruction the
\* factory produces carries the path, the methods in their order and the
\* func_name of the endpoint(...) call (None when it gave no func_name), and
\* so does the factory.
SiteFuncName ==
    IF "func_name" \in DOMAIN site.kwargs THEN site.kwargs["func_name"] ELSE None

C3_SameIdentityKey ==
    site.methods # << >> =>
        /\ factory.endpoint_path = site.path
        /\ factory.endpoint_methods = site.methods
        /\ factory.endpoint_func_name = SiteFuncName
        /\ \A i \in 1..Len(instrs) :
               /\ instrs[i].endpoint_path = site.path
               /\ instrs[i].endpoint_methods = site.methods
               /\ instrs[i].endpoint_func_name = SiteFuncName

C3_Witness ==
    /\ site.methods = <<"POST", "GET">>
    /\ "func_name" \in DOMAIN site.kwargs
    /\ Len(instrs) >= 2
    /\ trace[1].op = "had"
    /\ trace[2].op = "didnt_exist"
    /\ instrs[2].endpoint_methods = <<"POST", "GET">>
    /\ instrs[2].endpoint_func_name = "get_users"

\* C4: was(producer) does not invoke the producer, and invoking the stored
\* reference invokes the producer once, then, and yields what the producer
\* returns at that time.
C4_LazyProducer ==
    [][ /\ instrs' # instrs => invocations' = invocations
        /\ \A p \in Producers :
               invocations'[p] # invocations[p] =>
                   /\ invocations'[p] = invocations[p] + 1
                   /\ instrs' = instrs
                   /\ result' = returns[p]
                   /\ \E i \in 1..Len(instrs) :
                          /\ instrs[i].class = "EndpointWasInstruction"
                          /\ instrs[i].get_old_endpoint = p ]_vars

C4_Witness ==
    \E i \in 1..Len(instrs) :
        /\ trace[i].op = "was"
        /\ instrs[i].get_old_endpoint \in Producers
        /\ invocations[instrs[i].get_old_endpoint] = 1
        /\ result = returns[instrs[i].get_old_endpoint]
        /\ result # trace[i].then

\* C5: no factory and no instruction has an empty endpoint_methods.
C5_NoEmptyMethods ==
    /\ factory.endpoint_methods # << >>
    /\ \A i \in 1..Len(instrs) : instrs[i].endpoint_methods # << >>

\* C6: once an instruction or its payload is constructed, none of its fields
\* ever holds another value.
C6_Immutable ==
    [][\A i \in 1..Len(instrs) : instrs'[i] = instrs[i]]_vars

\* C7: no Was instruction holds a get_old_endpoint that is not callable.
C7_WasNeedsCallable ==
    \A i \in 1..Len(instrs) :
        instrs[i].class = "EndpointWasInstruction" =>
            instrs[i].get_old_endpoint \in Producers

\* C8: the operation fixes the variant of the instruction it produces, and
\* the instruction has the fields of that variant and no others: only Had
\* has attributes (a payload), only Was has get_old_endpoint.
VariantOf(op) ==
    CASE op = "didnt_exist" -> "EndpointDidntExistInstruction"
      [] op = "existed" -> "EndpointExistedInstruction"
      [] op = "had" -> "EndpointHadInstruction"
      [] op = "was" -> "EndpointWasInstruction"

VariantFields(op) ==
    CASE op = "had" -> {"attributes"}
      [] op = "was" -> {"get_old_endpoint"}
      [] OTHER -> {}

C8_OneVariant ==
    \A i \in 1..Len(instrs) :
        /\ instrs[i].class = VariantOf(trace[i].op)
        /\ DOMAIN instrs[i] = {"class"} \cup KeyFields \cup VariantFields(trace[i].op)
        /\ trace[i].op = "had" =>
               /\ instrs[i].attributes.class = "EndpointAttributesPayload"
               /\ DOMAIN instrs[i].attributes = {"class"} \cup FieldNames
        /\ trace[i].op = "was" =>
               instrs[i].get_old_endpoint = trace[i].args["get_old_endpoint"]

C8_Witness ==
    /\ Len(instrs) >= 2
    /\ trace[1].op = "existed"
    /\ instrs[1].class = "EndpointExistedInstruction"
    /\ trace[2].op = "was"
    /\ instrs[2].class = "EndpointWasInstruction"

\* C9: every instruction a factory operation produces is a member of
\* AlterEndpointSubInstruction.
C9_UnionCoversAll ==
    \A i \in 1..Len(instrs) : instrs[i].class \in AlterEndpointSubInstruction

\* C10: a factory operation leaves the factory and every instruction
\* produced before as they were and adds one new instruction, and two calls
\* of the same operation with the same arguments produce equal instructions.
C10_NoSideEffects ==
    [][ /\ factory' = factory
        /\ Len(instrs') = Len(instrs) + 1
        /\ SubSeq(instrs', 1, Len(instrs)) = instrs
        /\ \A i, j \in 1..Len(instrs') :
               (trace'[i].op = trace'[j].op /\ trace'[i].args = trace'[j].args)
                   => instrs'[i] = instrs'[j] ]_vars

C10_Witness ==
    /\ Len(instrs) >= 2
    /\ trace[1] = trace[2]
    /\ trace[1].op = "had"
    /\ "path" \in DOMAIN trace[1].args
    /\ instrs[1] = instrs[2]

====
